---- MODULE Spec2Model ----
(***************************************************************************)
(* Model of src/app.py: the ACRCloud recognition tool (recognize_song),    *)
(* the JSON history file (save_to_history) and the real-time buffering     *)
(* callback (process_audio_stream).                                        *)
(*                                                                         *)
(* Python values are modelled as follows.  A dict is a record whose DOMAIN *)
(* is the set of keys present, a list is a sequence, None is the string    *)
(* None.  A block that can raise is evaluated to an outcome record, either *)
(* Return(v) or Raise(str(e)), and each except clause is an operator on    *)
(* outcomes.  audio_buffer holds len(audio_buffer): the code only extends, *)
(* measures, encodes and clears the list, it never inspects a sample.      *)
(***************************************************************************)
EXTENDS Integers, Sequences, FiniteSets, TLC

VARIABLES
    environ,        \* the process environment read by os.getenv (lines 87-88)
    audio_buffer,   \* len(audio_buffer), the module-level list (line 169)
    tmp_files,      \* temporary .mp3 files existing on disk (lines 189-192)
    history_file,   \* content of HISTORY_FILE (line 34)
    posts,          \* requests.post calls made so far (line 96)
    request,        \* the last request handed to requests.post (lines 92-96)
    response,       \* what the last requests.post produced (line 96)
    result,         \* what the last recognize_song call returned
    output,         \* how the last process_audio_stream call ended
    clock,          \* the last value read from datetime.datetime.now()
    calls,          \* recognize_song calls so far
    path_exists,    \* os.path.exists(audio_path) in the last call (line 89)
    recognized,     \* song records returned by recognize_song, newest first
    saves,          \* save_to_history calls (line 111), newest first
    samples_total,  \* samples appended to audio_buffer so far (line 187)
    flushes         \* times the branch of line 188 was entered

vars == <<environ, audio_buffer, tmp_files, history_file, posts, request,
          response, result, output, clock, calls, path_exists, recognized,
          saves, samples_total, flushes>>

recognizeVars == <<history_file, posts, request, response, result, clock,
                   calls, path_exists, recognized, saves>>

streamVars == <<audio_buffer, tmp_files, output, samples_total, flushes>>

(***************************************************************************)
(* Program constants.                                                      *)
(***************************************************************************)
HistoryCap == 50
sample_rate == 44100
buffer_duration == 10
HTTP_OK == 200

(***************************************************************************)
(* Bounds of the model.                                                    *)
(***************************************************************************)
MaxCalls == 1          \* recognize_song calls explored under Spec
MaxLeaks == 2          \* encoding failures explored under Spec
MaxWindows == 1        \* windows of audio received under Spec
MaxFlushes == 3        \* flushes explored under SpecStream
MaxStreamWindows == 4  \* windows of audio received under SpecStream
Extra == 2             \* recognitions beyond HistoryCap under SpecHistory
MaxSaveFailures == 1   \* failing history writes explored under SpecHistory

(***************************************************************************)
(* Python helpers.                                                         *)
(***************************************************************************)
None == "None"
EmptyDict == <<>>
Return(v) == [kind |-> "return", value |-> v]
Raise(e) == [kind |-> "raise", exc |-> e]

\* dict.get(key, default)
Get(d, key, default) == IF key \in DOMAIN d THEN d[key] ELSE default

\* os.getenv(name)
getenv(name) == Get(environ, name, None)

IsError(r) == "error" \in DOMAIN r
IsSong(r) == "Song" \in DOMAIN r
IsRaised(r) == "raised" \in DOMAIN r

(***************************************************************************)
(* save_to_history (lines 116-134).                                        *)
(*                                                                         *)
(* HISTORY_FILE is absent, holds a JSON list, or is corrupt: it holds      *)
(* something json.load cannot read or that has no insert method.  What the *)
(* code stores are strings taken from a JSON response and a formatted      *)
(* date, which json.dump and json.load carry over unchanged.               *)
(***************************************************************************)
AbsentFile == [state |-> "absent", entries |-> <<>>]
CorruptFile == [state |-> "corrupt", entries |-> <<>>]
ListFile(entries) == [state |-> "list", entries |-> entries]

\* What can go wrong with the file system while the history is rewritten:
\* nothing, an open() that raises, or a json.dump that raises after
\* open(HISTORY_FILE, 'w') has already truncated the file.
IOOutcomes == {"ok", "open_fails", "dump_fails"}

\* lines 123-127: the history read back, [] when the file does not exist
LoadHistory(file) == IF file.state = "absent" THEN <<>> ELSE file.entries

\* InsertFirst appending instead.
InsertLast(history, song_data) == history \o <<song_data>>

\* line 128: history.insert(0, song_data)
InsertFirst(history, song_data) == <<song_data>> \o history

\* Truncate with the slice one too long.
TruncateOffByOne(history) ==
    IF Len(history) > HistoryCap THEN SubSeq(history, 1, HistoryCap + 1)
    ELSE history

\* lines 129-130: if len(history) > 50: history = history[:50]
Truncate(history) ==
    IF Len(history) > HistoryCap THEN SubSeq(history, 1, HistoryCap) ELSE history

\* lines 122-132: the try block
SaveTry(file, song_data, io) ==
    IF file.state = "corrupt" \/ io = "open_fails"
    THEN [raised |-> TRUE, completed |-> FALSE, file |-> file]
    ELSE IF io = "dump_fails"
    THEN [raised |-> TRUE, completed |-> FALSE, file |-> CorruptFile]
    ELSE [raised |-> FALSE, completed |-> TRUE,
          file |-> ListFile(Truncate(InsertFirst(LoadHistory(file), song_data)))]

\* SaveExcept letting the exception through.
SaveExceptReraises(attempt) == attempt

\* lines 133-134: except Exception: logger.error(...)
SaveExcept(attempt) == [attempt EXCEPT !.raised = FALSE]

save_to_history(file, song_data, io) == SaveExcept(SaveTry(file, song_data, io))

(***************************************************************************)
(* recognize_song (lines 76-114).                                          *)
(***************************************************************************)
NoRequest == [url |-> "", data |-> EmptyDict, files |-> {}]
NoResponse == [kind |-> "none"]

\* lines 92-95: the form handed to requests.post
BuildRequest ==
    [url |-> "http://identify-eu-west-1.acrcloud.com/v1/identify",
     data |-> [access_key |-> getenv("ACR_ACCESS_KEY"), data_type |-> "audio",
               sample_rate |-> 44100, audio_format |-> "mp3"],
     files |-> {"sample"}]

\* lines 104-110: song_data built from the first match
SongData(song_info, now) ==
    IF "artists" \in DOMAIN song_info /\ Len(song_info.artists) = 0
    THEN Raise("list index out of range")
    ELSE Return([Song |-> Get(song_info, "title", "Unknown"),
                 Artist |-> Get(Get(song_info, "artists", <<EmptyDict>>)[1],
                                "name", "Unknown"),
                 Album |-> Get(Get(song_info, "album", EmptyDict),
                               "name", "Unknown"),
                 Recognition_Date |-> now])

\* HttpFailed taking every status for a success.
HttpFailedNever(http) == FALSE

\* line 97: response.status_code != 200
HttpFailed(http) == http.status_code # HTTP_OK

\* lines 96-110: from the reply of requests.post to song_data
ParseResponse(http, now) ==
    IF http.kind = "exception" THEN Raise(http.exc)
    ELSE IF HttpFailed(http)
    THEN Return([error |-> "API Error: " \o ToString(http.status_code)])
    ELSE IF ~http.valid_json
    THEN Raise("Expecting value: line 1 column 1 (char 0)")
    ELSE LET body == http.body IN
         IF "status" \notin DOMAIN body THEN Raise("'status'")
         ELSE IF "code" \notin DOMAIN body.status THEN Raise("'code'")
         ELSE IF body.status.code # 0
         THEN IF "msg" \in DOMAIN body.status
              THEN Return([error |-> body.status.msg])
              ELSE Raise("'msg'")
         ELSE IF "metadata" \notin DOMAIN body
                 \/ "music" \notin DOMAIN body.metadata
         THEN Return([error |-> "Could not recognize the song"])
         ELSE IF Len(body.metadata.music) = 0
         THEN Raise("list index out of range")
         ELSE SongData(body.metadata.music[1], now)

\* RecognizeExcept catching only the exceptions of requests.
RecognizeExceptRequestsOnly(outcome) ==
    IF outcome.kind = "raise"
    THEN IF outcome.exc = "ConnectionError"
         THEN [error |-> "Error processing audio: " \o outcome.exc]
         ELSE [raised |-> outcome.exc]
    ELSE outcome.value

\* lines 113-114: except Exception as e.  What the call hands back: the
\* value the try block returned, or the error built from the exception.
RecognizeExcept(outcome) ==
    IF outcome.kind = "raise"
    THEN [error |-> "Error processing audio: " \o outcome.exc]
    ELSE outcome.value

\* The whole call: what it returns, what it leaves in HISTORY_FILE, how many
\* requests it sent and the save_to_history calls it made.
recognize_song(exists, http, now, io, file) ==
    IF ~exists
    THEN [result |-> [error |-> "The audio file does not exist"], file |-> file,
          posted |-> 0, saves |-> <<>>]
    ELSE LET parsed == ParseResponse(http, now)
             song == parsed.kind = "return" /\ IsSong(parsed.value)
             save == save_to_history(file, parsed.value, io)
             outcome == IF song /\ save.raised
                        THEN Raise("save_to_history") ELSE parsed
         IN  [result |-> RecognizeExcept(outcome),
              file |-> IF song THEN save.file ELSE file,
              posted |-> 1,
              saves |-> IF song
                        THEN <<[song_data |-> parsed.value,
                                completed |-> save.completed]>>
                        ELSE <<>>]

(***************************************************************************)
(* What the recognition endpoint can answer.                               *)
(***************************************************************************)
FullItem == [title |-> "T", artists |-> <<[name |-> "A"]>>,
             album |-> [name |-> "L"]]
Items == {FullItem, EmptyDict, [title |-> "T", artists |-> <<>>]}

Success == [code |-> 0, msg |-> "Success"]
Bodies ==
    {[metadata |-> [music |-> <<FullItem>>]],
     [status |-> [msg |-> "Success"]],
     [status |-> [code |-> 3001, msg |-> "Missing/Invalid Access Key"]],
     [status |-> [code |-> 1001]],
     [status |-> Success],
     [status |-> Success, metadata |-> EmptyDict],
     [status |-> Success, metadata |-> [music |-> <<>>]]}
    \cup {[status |-> Success, metadata |-> [music |-> <<item>>]] : item \in Items}

Reply(status_code, valid_json, body) ==
    [kind |-> "response", status_code |-> status_code,
     valid_json |-> valid_json, body |-> body]

HttpOutcomes ==
    {[kind |-> "exception", exc |-> "ConnectionError"],
     Reply(500, TRUE, EmptyDict),
     Reply(HTTP_OK, FALSE, EmptyDict)}
    \cup {Reply(HTTP_OK, TRUE, body) : body \in Bodies}

MatchReply == Reply(HTTP_OK, TRUE, [status |-> Success,
                                    metadata |-> [music |-> <<FullItem>>]])

(***************************************************************************)
(* One call of recognize_song, as a step of the program.                   *)
(***************************************************************************)
\* The call reads the clock (line 109) and rewrites HISTORY_FILE (line 111)
\* only once a match has been parsed.
ReachesSave(exists, http) ==
    /\ exists
    /\ LET parsed == ParseResponse(http, clock)
       IN  parsed.kind = "return" /\ IsSong(parsed.value)

CallRecognizeSong(exists, http, now, io) ==
    LET r == recognize_song(exists, http, now, io, history_file) IN
    /\ calls' = calls + 1
    /\ path_exists' = exists
    /\ clock' = IF ReachesSave(exists, http) THEN now ELSE clock
    /\ posts' = posts + r.posted
    /\ request' = IF r.posted > 0 THEN BuildRequest ELSE request
    /\ response' = IF r.posted > 0 THEN http ELSE response
    /\ result' = r.result
    /\ history_file' = r.file
    /\ saves' = r.saves \o saves
    /\ recognized' = IF IsSong(r.result) THEN <<r.result>> \o recognized
                     ELSE recognized

\* The values datetime.now() and the file system can give to a call that
\* consumes them.
Clocks(exists, http) ==
    IF ReachesSave(exists, http) THEN {clock, clock + 1} ELSE {clock}
IOs(exists, http) ==
    IF ReachesSave(exists, http) THEN IOOutcomes ELSE {"ok"}

\* recognize_song called as a tool, on any path.
RecognizeSongTool(exists, http, now, io) ==
    /\ CallRecognizeSong(exists, http, now, io)
    /\ UNCHANGED <<environ, streamVars>>

(***************************************************************************)
(* process_audio_stream (lines 173-200).                                   *)
(***************************************************************************)
Window == sample_rate * buffer_duration

\* lines 183-186: a bytes chunk is read as int16 samples, two bytes each
\* (np.frombuffer raises ValueError on an odd number of bytes); anything
\* else is taken as the samples themselves.
ChunkSamples(chunk) ==
    IF chunk.kind = "bytes"
    THEN IF chunk.size % 2 = 0 THEN Return(chunk.size \div 2)
         ELSE Raise("buffer size must be a multiple of element size")
    ELSE Return(chunk.size)

\* WindowFull with a strict comparison.
WindowExceeded(buffered) == buffered > Window

\* line 188: the buffer holds a whole window
WindowFull(buffered) == buffered >= Window

\* line 193: audio_buffer.clear()
ClearBuffer(buffered) == 0

\* lines 136-160, as called on line 197
get_artist_info(artist_name, song_name, language, llm) ==
    IF llm = "raises" THEN "Could not retrieve info: " \o "model error"
    ELSE llm

Raised(exc) == "raised: " \o exc

\* lines 194-199: the text shown for a recognition
StreamReply(song, llm) ==
    IF IsError(song) THEN "No match yet, keep playing..."
    ELSE "** " \o song.Song \o " ** by " \o song.Artist \o "\n\n"
         \o get_artist_info(song.Artist, song.Song, "en", llm)

\* lines 189-199: the flush.  An exception raised inside the with block
\* leaves the function before lines 192-193.
Flush(buffered, encode_ok, http, now, io, llm) ==
    /\ flushes' = flushes + 1
    /\ IF ~encode_ok
       THEN /\ audio_buffer' = buffered
            /\ tmp_files' = tmp_files + 1
            /\ output' = Raised("sf.write")
            /\ UNCHANGED recognizeVars
       ELSE /\ CallRecognizeSong(TRUE, http, now, io)
            /\ IF IsRaised(result')
               THEN /\ audio_buffer' = buffered
                    /\ tmp_files' = tmp_files + 1
                    /\ output' = Raised(result'.raised)
               ELSE /\ audio_buffer' = ClearBuffer(buffered)
                    /\ tmp_files' = tmp_files
                    /\ output' = StreamReply(result', llm)

ProcessAudioStream(chunk, encode_ok, http, now, io, llm) ==
    LET samples == ChunkSamples(chunk) IN
    /\ UNCHANGED environ
    /\ IF samples.kind = "raise"
       THEN /\ output' = Raised(samples.exc)
            /\ UNCHANGED <<audio_buffer, tmp_files, samples_total, flushes,
                           recognizeVars>>
       ELSE LET buffered == audio_buffer + samples.value IN
            /\ samples_total' = samples_total + samples.value
            /\ IF WindowFull(buffered)
               THEN Flush(buffered, encode_ok, http, now, io, llm)
               ELSE /\ audio_buffer' = buffered
                    /\ output' = "Processing..."
                    /\ UNCHANGED <<tmp_files, flushes, recognizeVars>>

\* Whether the chunk makes the call flush, and so consume the other inputs.
Flushes(chunk) ==
    LET samples == ChunkSamples(chunk)
    IN  samples.kind = "return" /\ WindowFull(audio_buffer + samples.value)

(***************************************************************************)
(* Initial states and specifications.                                      *)
(***************************************************************************)
OldEntry == [Song |-> "Old", Artist |-> "Old", Album |-> "Old",
             Recognition_Date |-> 0]
OldEntries(n) == [i \in 1..n |-> OldEntry]

Environs ==
    {EmptyDict, [ACR_ACCESS_KEY |-> "ak"], [ACR_SECRET_KEY |-> "sk"],
     [ACR_ACCESS_KEY |-> "ak", ACR_SECRET_KEY |-> "sk"]}

InitWith(files) ==
    /\ environ \in Environs
    /\ history_file \in files
    /\ audio_buffer = 0
    /\ tmp_files = 0
    /\ posts = 0
    /\ request = NoRequest
    /\ response = NoResponse
    /\ result = EmptyDict
    /\ output = ""
    /\ clock = 0
    /\ calls = 0
    /\ path_exists = FALSE
    /\ recognized = <<>>
    /\ saves = <<>>
    /\ samples_total = 0
    /\ flushes = 0

Init == InitWith({AbsentFile, ListFile(<<OldEntry>>)})

Chunks ==
    {[kind |-> "array", size |-> n] :
        n \in {0, Window \div 2, Window, 2 * Window + 1}}
    \cup {[kind |-> "bytes", size |-> n] : n \in {Window + 1, 2 * Window}}

ChunkSize(chunk) ==
    LET samples == ChunkSamples(chunk)
    IN  IF samples.kind = "return" THEN samples.value ELSE 0

\* A flush whose encoding fails never reaches recognize_song, so it takes
\* the place of the missing file in Clocks and IOs.
Next ==
    \/ \E chunk \in Chunks :
          /\ samples_total + ChunkSize(chunk) <= MaxWindows * Window + 1
          /\ IF Flushes(chunk)
             THEN /\ calls < MaxCalls
                  /\ tmp_files < MaxLeaks
                  /\ \E encode_ok \in BOOLEAN, http \in HttpOutcomes :
                       \E now \in Clocks(encode_ok, http),
                          io \in IOs(encode_ok, http),
                          llm \in IF ReachesSave(encode_ok, http)
                                  THEN {"info", "raises"} ELSE {"info"} :
                          ProcessAudioStream(chunk, encode_ok, http, now, io, llm)
             ELSE ProcessAudioStream(chunk, TRUE, NoResponse, clock, "ok", "info")
    \/ \E exists \in BOOLEAN, http \in HttpOutcomes :
          \E now \in Clocks(exists, http), io \in IOs(exists, http) :
             /\ calls < MaxCalls
             /\ RecognizeSongTool(exists, http, now, io)

Spec == Init /\ [][Next]_vars

\* The buffering callback alone, over several windows of audio, with one
\* reply of each kind process_audio_stream tells apart.
StreamReplies ==
    {MatchReply,
     Reply(HTTP_OK, TRUE, [status |-> [code |-> 1001, msg |-> "No result"]])}

NextStream ==
    \E chunk \in Chunks :
        /\ samples_total + ChunkSize(chunk) <= MaxStreamWindows * Window + 1
        /\ IF Flushes(chunk)
           THEN /\ flushes < MaxFlushes
                /\ tmp_files < MaxLeaks
                /\ \E encode_ok \in BOOLEAN, http \in StreamReplies :
                     ProcessAudioStream(chunk, encode_ok, http, clock + 1,
                                        "ok", "info")
           ELSE ProcessAudioStream(chunk, TRUE, NoResponse, clock, "ok", "info")

SpecStream == Init /\ [][NextStream]_vars

\* Successful recognitions only, enough of them to fill the history, from
\* any history file.
FailedSaves == Cardinality({i \in 1..Len(saves) : ~saves[i].completed})

InitHistory ==
    InitWith({AbsentFile, CorruptFile}
             \cup {ListFile(OldEntries(n)) :
                     n \in {0, 1, HistoryCap - 1, HistoryCap, HistoryCap + Extra}})

NextHistory ==
    \E io \in IOOutcomes :
        /\ calls < HistoryCap + Extra
        /\ io = "ok" \/ FailedSaves < MaxSaveFailures
        /\ RecognizeSongTool(TRUE, MatchReply, clock + 1, io)

SpecHistory == InitHistory /\ [][NextHistory]_vars

\* The same, from an empty history.
InitFresh == InitWith({AbsentFile, ListFile(<<>>)})

SpecFresh == InitFresh /\ [][NextHistory]_vars

(***************************************************************************)
(* Properties.                                                             *)
(***************************************************************************)
Min(a, b) == IF a < b THEN a ELSE b
Take(seq, n) == SubSeq(seq, 1, Min(n, Len(seq)))
IsCompleted(save) == save.completed

\* The records whose save_to_history call rewrote the file, newest first.
CompletedSaves ==
    LET done == SelectSeq(saves, IsCompleted)
    IN  [i \in 1..Len(done) |-> done[i].song_data]

\* A step in which recognize_song ran on an existing file.
RecognizedExisting == calls' = calls + 1 /\ path_exists'

\* A step in which process_audio_stream entered its flush branch.
FlushTriggered == flushes' = flushes + 1

\* The reply is HTTP 200 with status code 0 in its JSON body.
StatusZero(http) ==
    /\ http.kind = "response"
    /\ http.status_code = HTTP_OK
    /\ http.valid_json
    /\ "status" \in DOMAIN http.body
    /\ "code" \in DOMAIN http.body.status
    /\ http.body.status.code = 0

\* The reply is HTTP 200 with status code 0 and an empty match list.
EmptyMatchList(http) ==
    /\ StatusZero(http)
    /\ "metadata" \in DOMAIN http.body
    /\ "music" \in DOMAIN http.body.metadata
    /\ Len(http.body.metadata.music) = 0

\* The reply is HTTP 200 with a body that is not JSON, or JSON without the
\* status fields the code reads.
Malformed(http) ==
    /\ http.kind = "response"
    /\ http.status_code = HTTP_OK
    /\ \/ ~http.valid_json
       \/ "status" \notin DOMAIN http.body
       \/ "code" \notin DOMAIN http.body.status
       \/ /\ http.body.status.code # 0
          /\ "msg" \notin DOMAIN http.body.status

ParseErrors ==
    {"Expecting value: line 1 column 1 (char 0)", "'status'", "'code'", "'msg'"}

MissingCredential ==
    getenv("ACR_ACCESS_KEY") = None \/ getenv("ACR_SECRET_KEY") = None

\* C1: whatever the history file held at the start, once save_to_history
\* has written it, it never holds more than 50 entries.
C1_HistoryCapped ==
    (\E i \in 1..Len(saves) : saves[i].completed)
        => Len(history_file.entries) <= HistoryCap

\* C1 witness: more recognitions than the cap, every one of them saved, and
\* the file holds exactly 50 entries.
C1_Witness ==
    /\ Len(recognized) = HistoryCap + Extra
    /\ Len(CompletedSaves) = HistoryCap + Extra
    /\ Len(history_file.entries) = HistoryCap

\* C2 as stated: from an empty history, after n successful recognitions the
\* file holds exactly the most recent min(n, 50) results, newest first.
C2_Original == history_file.entries = Take(recognized, HistoryCap)

\* C2 amended: from an empty history, the file, while it is readable, holds
\* exactly the most recent min(k, 50) of the k results whose
\* save_to_history call completed, newest first, the oldest ones dropped.
C2_NewestFirstOfSaved ==
    history_file.state # "corrupt"
        => history_file.entries = Take(CompletedSaves, HistoryCap)

\* C2 witness: more than 50 results were saved, one recognition was not,
\* and the file is readable.
C2_Witness ==
    /\ history_file.state = "list"
    /\ Len(CompletedSaves) > HistoryCap
    /\ Len(recognized) > Len(CompletedSaves)
    /\ history_file.entries[1] = recognized[1]

\* C3 as stated: one flush per sample_rate * buffer_duration accumulated
\* samples, whatever the chunk sizes (read on the runs in which every
\* encoding succeeded, so that no temporary file was left behind).
C3_Original == tmp_files = 0 => flushes = samples_total \div Window

\* C3 amended: a call triggers at most one flush, only when the buffer with
\* the chunk appended holds at least sample_rate * buffer_duration samples,
\* and always when an appended chunk brings it there; a flush takes the
\* whole buffer, so completed flushes number at most one per window of
\* samples received; audio_buffer is empty right after a completed flush.
C3_FlushPerFullWindow ==
    /\ [][/\ flushes' \in {flushes, flushes + 1}
          /\ FlushTriggered
               => audio_buffer + (samples_total' - samples_total) >= Window
          /\ (flushes' = flushes /\ samples_total' > samples_total)
               => /\ audio_buffer'
                       = audio_buffer + (samples_total' - samples_total)
                  /\ audio_buffer' < Window
          /\ (FlushTriggered /\ calls' = calls + 1) => audio_buffer' = 0
         ]_vars
    /\ [](calls * Window <= samples_total)

\* C3 witness: two flushes completed, the buffer is empty, and the flushes
\* took more than two windows of samples.
C3_Witness ==
    /\ calls = 2
    /\ flushes = 2
    /\ audio_buffer = 0
    /\ samples_total > 2 * Window

\* C4 as stated: HTTP 200, status code 0 and an empty match list give the
\* "Could not recognize the song" error.
C4_EmptyMatchIsNoMatch ==
    (path_exists /\ EmptyMatchList(response))
        => result = [error |-> "Could not recognize the song"]

\* C5: a malformed HTTP 200 body makes recognize_song return the generic
\* error; nothing is raised into process_audio_stream and the history file
\* is left alone.
C5_MalformedIsGenericError ==
    [][(RecognizedExisting /\ Malformed(response'))
          => /\ \E e \in ParseErrors :
                  result' = [error |-> "Error processing audio: " \o e]
             /\ history_file' = history_file
             /\ saves' = saves
             /\ FlushTriggered => output' = "No match yet, keep playing..."
      ]_vars

\* C5 witness: a flush met a malformed body and ended with an error value.
C5_Witness ==
    /\ path_exists
    /\ Malformed(response)
    /\ IsError(result)
    /\ flushes = 1
    /\ output = "No match yet, keep playing..."

\* C6 as stated: with a credential missing, recognize_song returns an error
\* without sending a request.
C6_NoRequestWithoutCredentials ==
    MissingCredential => posts = 0 /\ (calls > 0 => IsError(result))

\* C7 as stated: every request sent carries a signature (with the timestamp
\* and signature version it was computed over).
C7_RequestsAreSigned ==
    posts > 0 => {"signature", "signature_version", "timestamp"}
                     \subseteq DOMAIN request.data

\* C8: on an existing file recognize_song sends exactly one request; it
\* returns a song record only for HTTP 200 with status code 0 and an error
\* value otherwise, with the HTTP status when that is not 200 and the
\* provider's message when the body's status code is not 0.
C8_SongOnlyOnSuccess ==
    [][RecognizedExisting
          => /\ posts' = posts + 1
             /\ IsSong(result') \/ IsError(result')
             /\ IsSong(result')
                  => /\ StatusZero(response')
                     /\ DOMAIN result'
                          = {"Song", "Artist", "Album", "Recognition_Date"}
             /\ (response'.kind = "response"
                 /\ response'.status_code # HTTP_OK)
                  => result' = [error |-> "API Error: "
                                   \o ToString(response'.status_code)]
             /\ (response'.kind = "response"
                 /\ response'.status_code = HTTP_OK
                 /\ ~Malformed(response') /\ ~StatusZero(response'))
                  => result' = [error |-> response'.body.status.msg]
      ]_vars

\* C8 witness: one call on an existing file, one request, a song returned.
C8_Witness ==
    /\ path_exists
    /\ calls = 1
    /\ posts = 1
    /\ IsSong(result)
    /\ StatusZero(response)

\* C9 as stated: however a flush ends, its temporary file is gone and
\* audio_buffer is empty.
C9_FlushCleansUp ==
    [][FlushTriggered => tmp_files' = 0 /\ audio_buffer' = 0]_vars

\* C10: only a call that returns a song record changes the history file;
\* a call that returns an error makes no save_to_history call; a call that
\* returns a song record made exactly one, with that record, and a failing
\* save does not make the call return an error.
C10_HistoryOnlyOnSong ==
    [][/\ history_file' # history_file
            => calls' = calls + 1 /\ IsSong(result')
       /\ saves' # saves => calls' = calls + 1 /\ IsSong(result')
       /\ calls' = calls + 1
            => IF IsSong(result')
               THEN /\ Len(saves') = Len(saves) + 1
                    /\ Tail(saves') = saves
                    /\ saves'[1].song_data = result'
               ELSE /\ IsError(result')
                    /\ saves' = saves
                    /\ history_file' = history_file
      ]_vars

\* C10 witness: a song record was returned although its save failed.
C10_Witness ==
    /\ IsSong(result)
    /\ saves # <<>>
    /\ saves[1].song_data = result
    /\ ~saves[1].completed
    /\ history_file.state = "corrupt"

====
